---- MODULE Spec2Model ----
(***************************************************************************)
(* Authentication subsystem of the FastAPI project: password hashing, JWT *)
(* issuance and verification, login / refresh, and the request-time       *)
(* identity resolution (get_current_user, get_current_active_superuser)   *)
(* in front of the user endpoints.                                        *)
(*                                                                         *)
(* Every request is a coroutine on the one event loop.  It runs from an    *)
(* await to its next await; at an await on the database the statement is   *)
(* sent, the database executes it at some later moment, and the coroutine  *)
(* resumes with the result at some moment after that.  Other requests and  *)
(* the clock move in between.                                              *)
(*                                                                         *)
(* Time is counted in ticks, TicksPerSecond ticks to the second, so that   *)
(* the truncation of a datetime to whole seconds done by the JWT library   *)
(* is visible.  Strings that the code parses (the "sub" claim) are         *)
(* sequences of characters.                                                *)
(***************************************************************************)
EXTENDS Integers, Sequences, FiniteSets, TLC

\* ------------------------------------------------------------------ bounds

TicksPerSecond == 2
MaxUserId == 3
MaxClockSteps == 2
MaxHeld == 1
MaxTasks == 2
MaxSalts == 4

\* ------------------------------------------------- configuration (Settings)

access_token_expire_minutes == 30
refresh_token_expire_days == 7
jwt_secret_key == "jwt-secret-change-in-production"

\* ------------------------------------------------------------ input domains

\* a password: the first 72 bytes of its encoding, and the bytes after them
Password(head, tail) == [head |-> head, tail |-> tail]

Emails == {"admin@x.io", "bob@x.io"}
Passwords == {Password("pw1", ""), Password("pw2", "")}
FullNames == {"null", "Bob"}
OtherKey == "some-other-key"
UserIds == 1..MaxUserId

\* timedelta(minutes = m) and timedelta(days = d), in ticks
Minutes(m) == m * 60 * TicksPerSecond
Days(d) == d * 24 * 60 * 60 * TicksPerSecond

\* how far the clock may move in one step
Jumps == {1, Minutes(access_token_expire_minutes),
          Days(refresh_token_expire_days) + TicksPerSecond}

\* ------------------------------------------------------------ str() / int()

Digit == <<"0", "1", "2", "3", "4", "5", "6", "7", "8", "9">>

RECURSIVE str(_)
\* Python str(n) of a non-negative int: its decimal digits
str(n) == IF n < 10 THEN <<Digit[n + 1]>>
          ELSE Append(str(n \div 10), Digit[(n % 10) + 1])

\* A character that a string of this module cannot hold as it is (a control
\* character other than \t \n \f \r, a character beyond ASCII) is written
\* by its code point, "U+0661".

\* the characters of Unicode 14 (Python 3.11) with a decimal digit value, by
\* that value: Decimals[v + 1] holds the digits that mean v
Decimals ==
    <<{"0", "U+0660", "U+06F0", "U+07C0", "U+0966", "U+09E6", "U+0A66",
      "U+0AE6", "U+0B66", "U+0BE6", "U+0C66", "U+0CE6", "U+0D66",
      "U+0DE6", "U+0E50", "U+0ED0", "U+0F20", "U+1040", "U+1090",
      "U+17E0", "U+1810", "U+1946", "U+19D0", "U+1A80", "U+1A90",
      "U+1B50", "U+1BB0", "U+1C40", "U+1C50", "U+A620", "U+A8D0",
      "U+A900", "U+A9D0", "U+A9F0", "U+AA50", "U+ABF0", "U+FF10",
      "U+104A0", "U+10D30", "U+11066", "U+110F0", "U+11136", "U+111D0",
      "U+112F0", "U+11450", "U+114D0", "U+11650", "U+116C0", "U+11730",
      "U+118E0", "U+11950", "U+11C50", "U+11D50", "U+11DA0", "U+16A60",
      "U+16AC0", "U+16B50", "U+1D7CE", "U+1D7D8", "U+1D7E2", "U+1D7EC",
      "U+1D7F6", "U+1E140", "U+1E2F0", "U+1E950", "U+1FBF0"},
     {"1", "U+0661", "U+06F1", "U+07C1", "U+0967", "U+09E7", "U+0A67",
      "U+0AE7", "U+0B67", "U+0BE7", "U+0C67", "U+0CE7", "U+0D67",
      "U+0DE7", "U+0E51", "U+0ED1", "U+0F21", "U+1041", "U+1091",
      "U+17E1", "U+1811", "U+1947", "U+19D1", "U+1A81", "U+1A91",
      "U+1B51", "U+1BB1", "U+1C41", "U+1C51", "U+A621", "U+A8D1",
      "U+A901", "U+A9D1", "U+A9F1", "U+AA51", "U+ABF1", "U+FF11",
      "U+104A1", "U+10D31", "U+11067", "U+110F1", "U+11137", "U+111D1",
      "U+112F1", "U+11451", "U+114D1", "U+11651", "U+116C1", "U+11731",
      "U+118E1", "U+11951", "U+11C51", "U+11D51", "U+11DA1", "U+16A61",
      "U+16AC1", "U+16B51", "U+1D7CF", "U+1D7D9", "U+1D7E3", "U+1D7ED",
      "U+1D7F7", "U+1E141", "U+1E2F1", "U+1E951", "U+1FBF1"},
     {"2", "U+0662", "U+06F2", "U+07C2", "U+0968", "U+09E8", "U+0A68",
      "U+0AE8", "U+0B68", "U+0BE8", "U+0C68", "U+0CE8", "U+0D68",
      "U+0DE8", "U+0E52", "U+0ED2", "U+0F22", "U+1042", "U+1092",
      "U+17E2", "U+1812", "U+1948", "U+19D2", "U+1A82", "U+1A92",
      "U+1B52", "U+1BB2", "U+1C42", "U+1C52", "U+A622", "U+A8D2",
      "U+A902", "U+A9D2", "U+A9F2", "U+AA52", "U+ABF2", "U+FF12",
      "U+104A2", "U+10D32", "U+11068", "U+110F2", "U+11138", "U+111D2",
      "U+112F2", "U+11452", "U+114D2", "U+11652", "U+116C2", "U+11732",
      "U+118E2", "U+11952", "U+11C52", "U+11D52", "U+11DA2", "U+16A62",
      "U+16AC2", "U+16B52", "U+1D7D0", "U+1D7DA", "U+1D7E4", "U+1D7EE",
      "U+1D7F8", "U+1E142", "U+1E2F2", "U+1E952", "U+1FBF2"},
     {"3", "U+0663", "U+06F3", "U+07C3", "U+0969", "U+09E9", "U+0A69",
      "U+0AE9", "U+0B69", "U+0BE9", "U+0C69", "U+0CE9", "U+0D69",
      "U+0DE9", "U+0E53", "U+0ED3", "U+0F23", "U+1043", "U+1093",
      "U+17E3", "U+1813", "U+1949", "U+19D3", "U+1A83", "U+1A93",
      "U+1B53", "U+1BB3", "U+1C43", "U+1C53", "U+A623", "U+A8D3",
      "U+A903", "U+A9D3", "U+A9F3", "U+AA53", "U+ABF3", "U+FF13",
      "U+104A3", "U+10D33", "U+11069", "U+110F3", "U+11139", "U+111D3",
      "U+112F3", "U+11453", "U+114D3", "U+11653", "U+116C3", "U+11733",
      "U+118E3", "U+11953", "U+11C53", "U+11D53", "U+11DA3", "U+16A63",
      "U+16AC3", "U+16B53", "U+1D7D1", "U+1D7DB", "U+1D7E5", "U+1D7EF",
      "U+1D7F9", "U+1E143", "U+1E2F3", "U+1E953", "U+1FBF3"},
     {"4", "U+0664", "U+06F4", "U+07C4", "U+096A", "U+09EA", "U+0A6A",
      "U+0AEA", "U+0B6A", "U+0BEA", "U+0C6A", "U+0CEA", "U+0D6A",
      "U+0DEA", "U+0E54", "U+0ED4", "U+0F24", "U+1044", "U+1094",
      "U+17E4", "U+1814", "U+194A", "U+19D4", "U+1A84", "U+1A94",
      "U+1B54", "U+1BB4", "U+1C44", "U+1C54", "U+A624", "U+A8D4",
      "U+A904", "U+A9D4", "U+A9F4", "U+AA54", "U+ABF4", "U+FF14",
      "U+104A4", "U+10D34", "U+1106A", "U+110F4", "U+1113A", "U+111D4",
      "U+112F4", "U+11454", "U+114D4", "U+11654", "U+116C4", "U+11734",
      "U+118E4", "U+11954", "U+11C54", "U+11D54", "U+11DA4", "U+16A64",
      "U+16AC4", "U+16B54", "U+1D7D2", "U+1D7DC", "U+1D7E6", "U+1D7F0",
      "U+1D7FA", "U+1E144", "U+1E2F4", "U+1E954", "U+1FBF4"},
     {"5", "U+0665", "U+06F5", "U+07C5", "U+096B", "U+09EB", "U+0A6B",
      "U+0AEB", "U+0B6B", "U+0BEB", "U+0C6B", "U+0CEB", "U+0D6B",
      "U+0DEB", "U+0E55", "U+0ED5", "U+0F25", "U+1045", "U+1095",
      "U+17E5", "U+1815", "U+194B", "U+19D5", "U+1A85", "U+1A95",
      "U+1B55", "U+1BB5", "U+1C45", "U+1C55", "U+A625", "U+A8D5",
      "U+A905", "U+A9D5", "U+A9F5", "U+AA55", "U+ABF5", "U+FF15",
      "U+104A5", "U+10D35", "U+1106B", "U+110F5", "U+1113B", "U+111D5",
      "U+112F5", "U+11455", "U+114D5", "U+11655", "U+116C5", "U+11735",
      "U+118E5", "U+11955", "U+11C55", "U+11D55", "U+11DA5", "U+16A65",
      "U+16AC5", "U+16B55", "U+1D7D3", "U+1D7DD", "U+1D7E7", "U+1D7F1",
      "U+1D7FB", "U+1E145", "U+1E2F5", "U+1E955", "U+1FBF5"},
     {"6", "U+0666", "U+06F6", "U+07C6", "U+096C", "U+09EC", "U+0A6C",
      "U+0AEC", "U+0B6C", "U+0BEC", "U+0C6C", "U+0CEC", "U+0D6C",
      "U+0DEC", "U+0E56", "U+0ED6", "U+0F26", "U+1046", "U+1096",
      "U+17E6", "U+1816", "U+194C", "U+19D6", "U+1A86", "U+1A96",
      "U+1B56", "U+1BB6", "U+1C46", "U+1C56", "U+A626", "U+A8D6",
      "U+A906", "U+A9D6", "U+A9F6", "U+AA56", "U+ABF6", "U+FF16",
      "U+104A6", "U+10D36", "U+1106C", "U+110F6", "U+1113C", "U+111D6",
      "U+112F6", "U+11456", "U+114D6", "U+11656", "U+116C6", "U+11736",
      "U+118E6", "U+11956", "U+11C56", "U+11D56", "U+11DA6", "U+16A66",
      "U+16AC6", "U+16B56", "U+1D7D4", "U+1D7DE", "U+1D7E8", "U+1D7F2",
      "U+1D7FC", "U+1E146", "U+1E2F6", "U+1E956", "U+1FBF6"},
     {"7", "U+0667", "U+06F7", "U+07C7", "U+096D", "U+09ED", "U+0A6D",
      "U+0AED", "U+0B6D", "U+0BED", "U+0C6D", "U+0CED", "U+0D6D",
      "U+0DED", "U+0E57", "U+0ED7", "U+0F27", "U+1047", "U+1097",
      "U+17E7", "U+1817", "U+194D", "U+19D7", "U+1A87", "U+1A97",
      "U+1B57", "U+1BB7", "U+1C47", "U+1C57", "U+A627", "U+A8D7",
      "U+A907", "U+A9D7", "U+A9F7", "U+AA57", "U+ABF7", "U+FF17",
      "U+104A7", "U+10D37", "U+1106D", "U+110F7", "U+1113D", "U+111D7",
      "U+112F7", "U+11457", "U+114D7", "U+11657", "U+116C7", "U+11737",
      "U+118E7", "U+11957", "U+11C57", "U+11D57", "U+11DA7", "U+16A67",
      "U+16AC7", "U+16B57", "U+1D7D5", "U+1D7DF", "U+1D7E9", "U+1D7F3",
      "U+1D7FD", "U+1E147", "U+1E2F7", "U+1E957", "U+1FBF7"},
     {"8", "U+0668", "U+06F8", "U+07C8", "U+096E", "U+09EE", "U+0A6E",
      "U+0AEE", "U+0B6E", "U+0BEE", "U+0C6E", "U+0CEE", "U+0D6E",
      "U+0DEE", "U+0E58", "U+0ED8", "U+0F28", "U+1048", "U+1098",
      "U+17E8", "U+1818", "U+194E", "U+19D8", "U+1A88", "U+1A98",
      "U+1B58", "U+1BB8", "U+1C48", "U+1C58", "U+A628", "U+A8D8",
      "U+A908", "U+A9D8", "U+A9F8", "U+AA58", "U+ABF8", "U+FF18",
      "U+104A8", "U+10D38", "U+1106E", "U+110F8", "U+1113E", "U+111D8",
      "U+112F8", "U+11458", "U+114D8", "U+11658", "U+116C8", "U+11738",
      "U+118E8", "U+11958", "U+11C58", "U+11D58", "U+11DA8", "U+16A68",
      "U+16AC8", "U+16B58", "U+1D7D6", "U+1D7E0", "U+1D7EA", "U+1D7F4",
      "U+1D7FE", "U+1E148", "U+1E2F8", "U+1E958", "U+1FBF8"},
     {"9", "U+0669", "U+06F9", "U+07C9", "U+096F", "U+09EF", "U+0A6F",
      "U+0AEF", "U+0B6F", "U+0BEF", "U+0C6F", "U+0CEF", "U+0D6F",
      "U+0DEF", "U+0E59", "U+0ED9", "U+0F29", "U+1049", "U+1099",
      "U+17E9", "U+1819", "U+194F", "U+19D9", "U+1A89", "U+1A99",
      "U+1B59", "U+1BB9", "U+1C49", "U+1C59", "U+A629", "U+A8D9",
      "U+A909", "U+A9D9", "U+A9F9", "U+AA59", "U+ABF9", "U+FF19",
      "U+104A9", "U+10D39", "U+1106F", "U+110F9", "U+1113F", "U+111D9",
      "U+112F9", "U+11459", "U+114D9", "U+11659", "U+116C9", "U+11739",
      "U+118E9", "U+11959", "U+11C59", "U+11D59", "U+11DA9", "U+16A69",
      "U+16AC9", "U+16B59", "U+1D7D7", "U+1D7E1", "U+1D7EB", "U+1D7F5",
      "U+1D7FF", "U+1E149", "U+1E2F9", "U+1E959", "U+1FBF9"}>>

DigitValue(c) == (CHOOSE i \in 1..10 : c \in Decimals[i]) - 1

IsDigit(c) == \E i \in 1..10 : c \in Decimals[i]

RECURSIVE DigitsValue(_)
DigitsValue(s) == IF s = <<>> THEN 0
                  ELSE 10 * DigitsValue(SubSeq(s, 1, Len(s) - 1))
                       + DigitValue(s[Len(s)])

\* the characters int() drops at both ends of its argument: the ASCII
\* whitespace with vertical tab and form feed, and the Unicode spaces
Whitespace ==
    {"\t", "\n", "U+000B", "\f", "\r", " ", "U+0085", "U+00A0",
     "U+1680", "U+2000", "U+2001", "U+2002", "U+2003", "U+2004",
     "U+2005", "U+2006", "U+2007", "U+2008", "U+2009", "U+200A",
     "U+2028", "U+2029", "U+202F", "U+205F", "U+3000"}

RECURSIVE lstrip(_)
lstrip(s) == IF s # <<>> /\ s[1] \in Whitespace THEN lstrip(Tail(s)) ELSE s

RECURSIVE rstrip(_)
rstrip(s) == IF s # <<>> /\ s[Len(s)] \in Whitespace
             THEN rstrip(SubSeq(s, 1, Len(s) - 1)) ELSE s

\* the digits of a decimal literal: a non-empty run of digits, single
\* underscores allowed between two digits
IsNumeral(d) ==
    /\ d # <<>>
    /\ \A i \in 1..Len(d) :
          \/ IsDigit(d[i])
          \/ /\ d[i] = "_"
             /\ 1 < i
             /\ i < Len(d)
             /\ IsDigit(d[i - 1])
             /\ IsDigit(d[i + 1])

\* Python int(s) of a string: surrounding whitespace is dropped, a sign may
\* lead, underscores between digits are skipped, a digit of any script counts
\* by its decimal value; anything else is a ValueError
int(s) ==
    LET t == rstrip(lstrip(s))
        signed == t # <<>> /\ t[1] \in {"+", "-"}
        d == IF signed THEN Tail(t) ELSE t
        v == DigitsValue(SelectSeq(d, IsDigit))
    IN  IF IsNumeral(d)
        THEN [raised |-> FALSE, value |-> IF signed /\ t[1] = "-" THEN 0 - v ELSE v]
        ELSE [raised |-> TRUE, value |-> 0]

\* ------------------------------------------------------- password hashing

\* pwd_context.hash: bcrypt, under the salt drawn for this call, of the
\* first 72 bytes of the password; bcrypt does not read the bytes after them
get_password_hash(password, salt) ==
    [scheme |-> "bcrypt", salt |-> salt, digest |-> <<salt, password.head>>]

\* pwd_context.verify: recompute under the digest's salt and compare;
\* a digest of no known scheme raises (passlib's UnknownHashError)
verify_password(plain_password, hashed_password) ==
    IF hashed_password.scheme # "bcrypt"
    THEN [raised |-> TRUE, value |-> FALSE]
    ELSE [raised |-> FALSE,
          value |-> hashed_password.digest
                       = <<hashed_password.salt, plain_password.head>>]

\* ----------------------------------------------------------------- tokens

None == <<>>

\* the MAC of a message under a key
Hmac(key, msg) == [key |-> key, msg |-> msg]

\* jwt.encode: a datetime "exp" becomes whole seconds since the epoch
\* (timegm(utctimetuple())), then the claims are signed
encode(payload) ==
    LET claims == [payload EXCEPT !.exp = payload.exp \div TicksPerSecond]
    IN  [fmt |-> "jws", payload |-> claims, mac |-> Hmac(jwt_secret_key, claims)]

\* jose's expiry validation: now is whole seconds, no leeway
Expired(exp, now) == exp < (now \div TicksPerSecond)

\* decode without the verification of the signature
decode_unverified(token, now) ==
    IF token.fmt # "jws" THEN None
    ELSE IF "exp" \in DOMAIN token.payload /\ Expired(token.payload.exp, now) THEN None
    ELSE token.payload

\* jwt.decode under the configured key; any JWTError becomes None
decode(token, now) ==
    IF token.fmt # "jws" THEN None
    ELSE IF token.mac # Hmac(jwt_secret_key, token.payload) THEN None
    ELSE IF "exp" \in DOMAIN token.payload /\ Expired(token.payload.exp, now) THEN None
    ELSE token.payload

\* a timedelta, in ticks
timedelta(ticks) == [ticks |-> ticks]

\* bool(expires_delta): None is falsy, and so is a timedelta of zero length
Truthy(expires_delta) == expires_delta # None /\ expires_delta.ticks # 0

build_access_payload(subject, expires_delta, now) ==
    [exp |-> IF Truthy(expires_delta) THEN now + expires_delta.ticks
             ELSE now + Minutes(access_token_expire_minutes),
     sub |-> str(subject), type |-> "access"]

build_refresh_payload(subject, now) ==
    [exp |-> now + Days(refresh_token_expire_days),
     sub |-> str(subject), type |-> "refresh"]

create_access_token(subject, expires_delta, now) ==
    encode(build_access_payload(subject, expires_delta, now))

create_refresh_token(subject, now) == encode(build_refresh_payload(subject, now))

\* schemas.token.Token
Token(access, refresh) ==
    [access_token |-> access, refresh_token |-> refresh, token_type |-> "bearer"]

\* ------------------------------------------------------------- exceptions

Ok(v) == [raised |-> FALSE, value |-> v]

Raise(exc) == [raised |-> TRUE, exc |-> exc]

AppException(cls, message, status_code) ==
    [base |-> "AppException", cls |-> cls, message |-> message,
     status_code |-> status_code, detail |-> "null"]

\* the message is f"{resource} not found": the resource, then " not found"
NotFoundError(resource) ==
    AppException("NotFoundError", <<resource, " not found">>, 404)

UnauthorizedError(message) == AppException("UnauthorizedError", message, 401)

ConflictError(message) == AppException("ConflictError", message, 409)

\* fastapi.HTTPException as the dependencies raise it
HTTPException(status_code, detail, headers) ==
    [base |-> "HTTPException", cls |-> "HTTPException", status_code |-> status_code,
     detail |-> detail, headers |-> headers]

\* an exception that is no AppException and no HTTPException
\* (ValueError of int(), passlib's UnknownHashError, the driver's
\* IntegrityError, the TypeError of User.from_row(None))
OtherException(cls) == [base |-> "Exception", cls |-> cls]

\* ------------------------------------------------------ exception handlers

app_exception_handler(exc) ==
    [status |-> exc.status_code,
     body |-> [error |-> exc.message, detail |-> exc.detail]]

\* app.debug is False by default: the detail is None
general_exception_handler(exc) ==
    [status |-> 500,
     body |-> [error |-> "Internal server error", detail |-> "null"]]

\* the framework's own handler of an HTTPException: {"detail": ...}
http_exception_handler(exc) ==
    [status |-> exc.status_code, body |-> [detail |-> exc.detail]]

\* the response of an endpoint whose handler returned or raised
Respond(result, success_status) ==
    IF ~result.raised THEN [status |-> success_status, body |-> result.value]
    ELSE IF result.exc.base = "AppException" THEN app_exception_handler(result.exc)
    ELSE IF result.exc.base = "HTTPException" THEN http_exception_handler(result.exc)
    ELSE general_exception_handler(result.exc)

\* ------------------------------------------------------------ UserService
\*
\* The statements of UserService, as the database executes them on the
\* committed rows db.

\* fetch_one of SELECT ... WHERE id = :user_id, and get_by_id's test of it
get_by_id(db, user_id) ==
    IF \E u \in db : u.id = user_id
    THEN Ok(CHOOSE u \in db : u.id = user_id)
    ELSE Raise(NotFoundError("User"))

\* fetch_one of SELECT ... WHERE email = :email
get_by_email(db, email) ==
    IF \E u \in db : u.email = email
    THEN CHOOSE u \in db : u.email = email
    ELSE None

RECURSIVE OrderById(_)
\* ORDER BY id
OrderById(rows) ==
    IF rows = {} THEN <<>>
    ELSE LET first == CHOOSE u \in rows : \A v \in rows : u.id <= v.id
         IN  <<first>> \o OrderById(rows \ {first})

\* fetch_all of SELECT ... ORDER BY id OFFSET :skip LIMIT :limit
get_list(db, skip, limit) ==
    LET all == OrderById(db)
        last == IF skip + limit < Len(all) THEN skip + limit ELSE Len(all)
    IN  IF skip >= Len(all) THEN <<>> ELSE SubSeq(all, skip + 1, last)

\* fetch_scalar of SELECT COUNT(id)
count(db) == Cardinality(db)

\* ------------------------------------------------------------ AuthService
\*
\* An async function is an operator of its arguments, of what its awaits
\* returned and of the clock at the moment it reads it.

\* authenticate, telling a wrong password from an unknown email
authenticate_telling(user, password) ==
    LET verified == verify_password(password, user.hashed_password)
    IN  IF user = None
        THEN Raise(UnauthorizedError("Incorrect email or password"))
        ELSE IF verified.raised THEN Raise(OtherException("UnknownHashError"))
        ELSE IF ~verified.value
        THEN Raise(UnauthorizedError("Incorrect password"))
        ELSE IF ~user.is_active THEN Raise(UnauthorizedError("User is inactive"))
        ELSE Ok(user)

\* authenticate testing the active flag before the password
authenticate_active_first(user, password) ==
    LET verified == verify_password(password, user.hashed_password)
    IN  IF user = None
        THEN Raise(UnauthorizedError("Incorrect email or password"))
        ELSE IF ~user.is_active THEN Raise(UnauthorizedError("User is inactive"))
        ELSE IF verified.raised THEN Raise(OtherException("UnknownHashError"))
        ELSE IF ~verified.value
        THEN Raise(UnauthorizedError("Incorrect email or password"))
        ELSE Ok(user)

\* authenticate, user being what the awaited get_by_email returned
authenticate(user, password) ==
    LET verified == verify_password(password, user.hashed_password)
    IN  IF user = None
        THEN Raise(UnauthorizedError("Incorrect email or password"))
        ELSE IF verified.raised THEN Raise(OtherException("UnknownHashError"))
        ELSE IF ~verified.value
        THEN Raise(UnauthorizedError("Incorrect email or password"))
        ELSE IF ~user.is_active THEN Raise(UnauthorizedError("User is inactive"))
        ELSE Ok(user)

\* login issuing its tokens for the first user, not the authenticated one
login_first_user(user, password, now, later) ==
    LET authenticated == authenticate(user, password)
    IN  IF authenticated.raised THEN authenticated
        ELSE Ok(Token(create_access_token(1, None, now),
                      create_refresh_token(1, later)))

\* login, user being what get_by_email returned.  Each token reads the
\* clock for itself: now is the clock when create_access_token reads it,
\* later the clock when create_refresh_token does
login(user, password, now, later) ==
    LET authenticated == authenticate(user, password)
    IN  IF authenticated.raised THEN authenticated
        ELSE Ok(Token(create_access_token(authenticated.value.id, None, now),
                      create_refresh_token(authenticated.value.id, later)))

\* dict.get(key) of a decoded payload, None when the key is absent
PayloadGet(payload, key) ==
    IF key \in DOMAIN payload THEN payload[key] ELSE "null"

\* "not payload": None and the empty dict are both falsy
Falsy(payload) == DOMAIN payload = {}

\* int(payload.get("sub", 0))
SubjectId(payload) ==
    IF "sub" \in DOMAIN payload THEN int(payload.sub)
    ELSE [raised |-> FALSE, value |-> 0]

\* refresh_token up to its await, without the check of the type claim
refresh_token_user_id_any_type(token, now) ==
    LET payload == decode(token, now)
        user_id == SubjectId(payload)
    IN  IF Falsy(payload)
        THEN Raise(UnauthorizedError("Invalid refresh token"))
        ELSE IF user_id.raised THEN Raise(OtherException("ValueError"))
        ELSE Ok(user_id.value)

\* refresh_token up to its await of get_by_id: the user_id it asks for, now
\* being the clock when the token is decoded
refresh_token_user_id(token, now) ==
    LET payload == decode(token, now)
        user_id == SubjectId(payload)
    IN  IF Falsy(payload) \/ PayloadGet(payload, "type") # "refresh"
        THEN Raise(UnauthorizedError("Invalid refresh token"))
        ELSE IF user_id.raised THEN Raise(OtherException("ValueError"))
        ELSE Ok(user_id.value)

\* refresh_token renewing the access token only and handing the refresh token back
refresh_token_kept(token, user, now, later) ==
    IF user.raised THEN user
    ELSE IF ~user.value.is_active THEN Raise(UnauthorizedError("User is inactive"))
    ELSE Ok(Token(create_access_token(user.value.id, None, now), token))

\* refresh_token from its await on: user is what get_by_id returned or
\* raised, now the clock when create_access_token reads it, later the clock
\* when create_refresh_token does
refresh_token(token, user, now, later) ==
    IF user.raised THEN user
    ELSE IF ~user.value.is_active THEN Raise(UnauthorizedError("User is inactive"))
    ELSE Ok(Token(create_access_token(user.value.id, None, now),
                  create_refresh_token(user.value.id, later)))

\* ----------------------------------------------------------- dependencies

Bearer == [WWW_Authenticate |-> "Bearer"]

NoHeaders == [WWW_Authenticate |-> "null"]

\* OAuth2PasswordBearer: a request without a bearer credential
oauth2_scheme(token) ==
    IF token.fmt = "none"
    THEN Raise(HTTPException(401, "Not authenticated", Bearer))
    ELSE Ok(token)

\* get_current_user up to its await, without the check of the type claim
get_current_user_id_any_type(token, now) ==
    LET payload == decode(token, now)
        user_id == SubjectId(payload)
    IN  IF oauth2_scheme(token).raised THEN oauth2_scheme(token)
        ELSE IF Falsy(payload)
        THEN Raise(HTTPException(401, "Could not validate credentials", Bearer))
        ELSE IF user_id.raised THEN Raise(OtherException("ValueError"))
        ELSE Ok(user_id.value)

\* get_current_user up to its await of get_by_id: the user_id it asks for,
\* now being the clock when the token is decoded
get_current_user_id(token, now) ==
    LET payload == decode(token, now)
        user_id == SubjectId(payload)
    IN  IF oauth2_scheme(token).raised THEN oauth2_scheme(token)
        ELSE IF Falsy(payload) \/ PayloadGet(payload, "type") # "access"
        THEN Raise(HTTPException(401, "Could not validate credentials", Bearer))
        ELSE IF user_id.raised THEN Raise(OtherException("ValueError"))
        ELSE Ok(user_id.value)

\* get_current_user without its check of the active flag
get_current_user_ignoring_active(user) ==
    IF user.raised
    THEN Raise(HTTPException(401, "User not found", Bearer))
    ELSE user

\* get_current_user letting the NotFoundError of get_by_id through
get_current_user_uncaught(user) ==
    IF user.raised THEN user
    ELSE IF ~user.value.is_active
    THEN Raise(HTTPException(401, "Inactive user", NoHeaders))
    ELSE user

\* get_current_user from its await on: user is what get_by_id returned or
\* raised
get_current_user(user) ==
    IF user.raised
    THEN Raise(HTTPException(401, "User not found", Bearer))
    ELSE IF ~user.value.is_active
    THEN Raise(HTTPException(401, "Inactive user", NoHeaders))
    ELSE user

\* get_current_active_superuser without its check of the superuser flag
get_current_active_superuser_open(current_user) == current_user

get_current_active_superuser(current_user) ==
    IF current_user.raised THEN current_user
    ELSE IF ~current_user.value.is_superuser
    THEN Raise(HTTPException(403, "Not enough permissions", NoHeaders))
    ELSE current_user

\* schemas.user.UserResponse: the stored row without its password hash
UserResponse(user) ==
    [id |-> user.id, email |-> user.email, full_name |-> user.full_name,
     is_active |-> user.is_active, is_superuser |-> user.is_superuser]

\* schemas.common.PaginatedResponse
PaginatedResponse(items, total, skip, limit) ==
    [items |-> items, total |-> total, skip |-> skip, limit |-> limit]

\* a schema that keeps whatever fields the body has
UserUpdate_any(body) == body

\* schemas.user.UserUpdate of a JSON body: the fields of the schema that the
\* body sets; pydantic ignores every other field
UserUpdate(body) ==
    [k \in DOMAIN body \cap {"email", "full_name", "password", "is_active"} |-> body[k]]

\* -------------------------------------------------------------------- state

VARIABLES
    users,          \* the committed rows of table "users"
    next_id,        \* the next value of the table's id sequence
    now,            \* the UTC clock, in ticks
    clock_steps,    \* how often the clock has moved
    held,           \* the token pairs a client has kept, each with the id that
                    \* passed the password check at the login its chain began with
    resp,           \* the request that has just been answered and its response
    tasks,          \* the request coroutines in flight, each at its await
    running,        \* the coroutine that keeps the event loop, 0 when none
    salts_drawn     \* how many salts bcrypt has drawn

vars == <<users, next_id, now, clock_steps, held, resp, tasks, running, salts_drawn>>

\* the seeded administrator: no endpoint creates a superuser
Admin ==
    [id |-> 1, email |-> "admin@x.io",
     hashed_password |-> get_password_hash(Password("pw1", ""), 1),
     full_name |-> "null", is_active |-> TRUE, is_superuser |-> TRUE]

TaskIds == 1..MaxTasks

\* no request in flight on a connection.  pc: "sent" when the statement query
\* has been sent at the await named by at, "ready" when its result is there,
\* "hashing" inside bcrypt, "minting" between the two tokens of a pair.
\* t0: the clock when the token was decoded.  t1, t2: the clock
\* create_access_token and create_refresh_token read.
\* user: what get_by_id returned or raised in get_current_user.
\* current_user: what get_current_user returned or raised.  write: the
\* uncommitted change of the connection's transaction.  ret: what the
\* endpoint returned or raised.
NoTask ==
    [pc |-> "idle", op |-> "none", req |-> None, t0 |-> 0, t1 |-> 0, t2 |-> 0,
     at |-> "", query |-> None,
     result |-> None, user |-> None, current_user |-> None, items |-> None,
     hashed |-> None, write |-> None, ret |-> None]

Idle == [op |-> "none", req |-> None, status |-> 0, body |-> None, task |-> NoTask]

Init ==
    /\ users = {Admin}
    /\ next_id = 2
    /\ now = 0
    /\ clock_steps = 0
    /\ held = {}
    /\ resp = Idle
    /\ tasks = [t \in TaskIds |-> NoTask]
    /\ running = 0
    /\ salts_drawn = 1

\* ------------------------------------------------- what a client can present

Garbage == [fmt |-> "garbage", payload |-> None, mac |-> Hmac("", None)]

NoCredentials == [fmt |-> "none", payload |-> None, mac |-> Hmac("", None)]

\* a token re-signed under another key, or with its type claim rewritten and
\* the old signature kept
Tampered(t) ==
    {[t EXCEPT !.mac = Hmac(OtherKey, t.payload)],
     [t EXCEPT !.payload.type = IF t.payload.type = "access" THEN "refresh" ELSE "access"]}

\* the tokens of a kept pair
TokensOf(h) == {h.pair.access_token, h.pair.refresh_token}

\* a client that holds no pair can only send something that is no token
NoSession == [pair |-> Token(Garbage, Garbage), root |-> 0]

\* what a client holding h can send as a token: its tokens, as issued or
\* tampered with
Presentable(h) ==
    IF h = NoSession THEN {Garbage}
    ELSE TokensOf(h) \cup UNION {Tampered(t) : t \in TokensOf(h)}

Sessions == held \cup {NoSession}

\* a client keeps a returned pair while it has room for it
Keep(pair, root) ==
    IF Cardinality(held \cup {[pair |-> pair, root |-> root]}) <= MaxHeld
    THEN held \cup {[pair |-> pair, root |-> root]}
    ELSE held

\* ------------------------------------------------------------- the database
\*
\* Each request has its own connection (get_db) and with it its own
\* transaction, READ COMMITTED: a statement sees the committed rows; an
\* INSERT, UPDATE or DELETE stays invisible to the others until get_db
\* commits, and a statement that writes a row or an email another open
\* transaction has written waits for that transaction to end.

\* the uncommitted change of a transaction: the row version it replaces or
\* removes, and the row version it puts
Write(old, row) == [old |-> old, row |-> row]

\* the write w has put or removed a row with this email
Touches(w, email) ==
    \/ w.row # None /\ w.row.email = email
    \/ w.old # None /\ w.old.email = email

\* the statement of task t has to wait for another transaction.  An UPDATE
\* that finds no row of its id writes nothing and waits for nothing.
Blocked(t) ==
    LET q == tasks[t].query
        open == {tasks[o].write : o \in TaskIds \ {t}} \ {None}
    IN  IF q.stmt = "insert" THEN \E w \in open : Touches(w, q.params.email)
        ELSE IF q.stmt = "update"
        THEN \E w \in open :
                \/ w.old # None /\ w.old.id = q.user_id
                \/ /\ \E u \in users : u.id = q.user_id
                   /\ "email" \in DOMAIN q.data
                   /\ Touches(w, q.data.email)
        ELSE IF q.stmt = "delete"
        THEN \E w \in open : w.old # None /\ w.old.id = q.user_id
        ELSE FALSE

\* INSERT ... RETURNING: the id is drawn from the sequence, then the unique
\* index on email (orm_models.py) refuses a stored email
insert(db, id, params) ==
    LET row == [id |-> id, email |-> params.email,
                hashed_password |-> params.hashed_password,
                full_name |-> params.full_name, is_active |-> params.is_active,
                is_superuser |-> params.is_superuser]
    IN  IF \E u \in db : u.email = params.email
        THEN [result |-> Raise(OtherException("IntegrityError")), write |-> None]
        ELSE [result |-> Ok(row), write |-> Write(None, row)]

\* UPDATE ... SET <the keys of update_data> WHERE id = :user_id RETURNING:
\* fetch_one gives None when no row has the id
update(db, user_id, update_data) ==
    LET found == get_by_id(db, user_id)
        old == found.value
        row == [k \in DOMAIN old |->
                   IF k \in DOMAIN update_data THEN update_data[k] ELSE old[k]]
    IN  IF found.raised THEN [result |-> None, write |-> None]
        ELSE IF \E u \in db : u.id # user_id /\ u.email = row.email
        THEN [result |-> Raise(OtherException("IntegrityError")), write |-> None]
        ELSE [result |-> Ok(row), write |-> Write(old, row)]

\* DELETE ... WHERE id = :user_id
delete(db, user_id) ==
    LET found == get_by_id(db, user_id)
    IN  IF found.raised THEN [result |-> Ok(None), write |-> None]
        ELSE [result |-> Ok(None), write |-> Write(found.value, None)]

\* conn.commit(): the transaction's change becomes the committed state
commit(db, w) ==
    IF w = None THEN db
    ELSE (db \ (IF w.old = None THEN {} ELSE {w.old}))
            \cup (IF w.row = None THEN {} ELSE {w.row})

\* conn.rollback(): the transaction's change is dropped
rollback(db, w) == db
\* ------------------------------------------------------- the event loop
\*
\* A coroutine runs when the loop is free.  verify_password and
\* get_password_hash are called, not awaited in an executor: the coroutine
\* keeps the loop while bcrypt runs.  The database executes a statement that
\* has been sent whenever it gets to it.  Every endpoint that takes a
\* connection from get_db leaves through it: get_db awaits conn.commit() when
\* the endpoint has returned and conn.rollback() when it has raised, and the
\* response is made when that await has come back.

\* verify_password and get_password_hash are awaited in an executor
hash_awaited == FALSE

\* a new request gets the first free connection
Arrives(t) ==
    /\ resp = Idle
    /\ running = 0
    /\ tasks[t].pc = "idle"
    /\ \A o \in TaskIds : o < t => tasks[o].pc # "idle"

\* the coroutine of op is resumed with the result of its await at
Resumes(t, op, at) ==
    /\ resp = Idle
    /\ running = 0
    /\ tasks[t].pc = "ready"
    /\ tasks[t].op = op
    /\ tasks[t].at = at

\* the coroutine of op comes back from bcrypt
Hashed(t, op) ==
    /\ resp = Idle
    /\ running = IF hash_awaited THEN 0 ELSE t
    /\ tasks[t].pc = "hashing"
    /\ tasks[t].op = op

\* the coroutine of op has made its access token and goes on to the
\* refresh token
Mints(t, op) ==
    /\ resp = Idle
    /\ running = t
    /\ tasks[t].pc = "minting"
    /\ tasks[t].op = op

\* a request as it arrives
Start(op, req) == [NoTask EXCEPT !.op = op, !.req = req]

\* the coroutine sends a statement and awaits its result
Await(task, at, query) ==
    [task EXCEPT !.pc = "sent", !.at = at, !.query = query, !.result = None]

\* the coroutine goes into bcrypt
Hashing(task) == [task EXCEPT !.pc = "hashing", !.query = None]

\* the coroutine has read the clock for its access token
Minting(task, clock) == [task EXCEPT !.pc = "minting", !.query = None, !.t1 = clock]

\* the endpoint returns or raises result: get_db resumes after its yield, or
\* in its except clause, and awaits the end of the transaction
Finish(task, result, success_status) ==
    [task EXCEPT !.pc = "sent", !.at = "get_db",
                 !.query = [stmt |-> IF result.raised THEN "rollback" ELSE "commit"],
                 !.ret = [result |-> result, status |-> success_status]]

\* the id that passed the password check at the login a pair goes back to
Root(task) == IF task.op = "login" THEN task.result.id ELSE task.req.root

\* the request of task t is answered with what its handler returned or
\* raised
Answer(t, task, result, success_status) ==
    /\ resp' = [op |-> task.op, req |-> task.req, task |-> task]
                  @@ Respond(result, success_status)
    /\ tasks' = [tasks EXCEPT ![t] = NoTask]
    /\ held' = IF ~result.raised /\ task.op \in {"login", "refresh"}
               THEN Keep(result.value, Root(task))
               ELSE held

\* the coroutine of task t has reached its next await
Continue(t, task) ==
    /\ tasks' = [tasks EXCEPT ![t] = task]
    /\ UNCHANGED <<resp, held>>

\* the database executes the statement task t has sent; at COMMIT the
\* transaction's change becomes visible to the other connections
execute(t) ==
    LET q == tasks[t].query
        read(result) == [result |-> result, write |-> tasks[t].write]
        ended == [result |-> tasks[t].result, write |-> None]
        out == IF q.stmt = "get_by_id" THEN read(get_by_id(users, q.user_id))
               ELSE IF q.stmt = "get_by_email" THEN read(get_by_email(users, q.email))
               ELSE IF q.stmt = "get_list" THEN read(get_list(users, q.skip, q.limit))
               ELSE IF q.stmt = "count" THEN read(count(users))
               ELSE IF q.stmt = "insert" THEN insert(users, next_id, q.params)
               ELSE IF q.stmt = "update" THEN update(users, q.user_id, q.data)
               ELSE IF q.stmt = "delete" THEN delete(users, q.user_id)
               ELSE ended
    IN  /\ resp = Idle
        /\ tasks[t].pc = "sent"
        /\ q.stmt # "run_in_threadpool"
        /\ ~Blocked(t)
        /\ tasks' = [tasks EXCEPT ![t].pc = "ready", ![t].result = out.result,
                                  ![t].write = out.write]
        /\ users' = IF q.stmt = "commit" THEN commit(users, tasks[t].write)
                    ELSE IF q.stmt = "rollback" THEN rollback(users, tasks[t].write)
                    ELSE users
        /\ next_id' = IF q.stmt = "insert" THEN next_id + 1 ELSE next_id
        /\ UNCHANGED <<now, clock_steps, held, resp, running, salts_drawn>>

\* get_db resumes when its transaction has ended, the connection goes back to
\* the pool and the response is sent
get_db(t) ==
    /\ resp = Idle
    /\ running = 0
    /\ tasks[t].pc = "ready"
    /\ tasks[t].at = "get_db"
    /\ Answer(t, tasks[t], tasks[t].ret.result, tasks[t].ret.status)
    /\ UNCHANGED <<users, next_id, now, clock_steps, running, salts_drawn>>

\* ------------------------------------------------- POST /auth/register

\* the registrations in flight that have not drawn their id yet
Unnumbered ==
    {o \in TaskIds : /\ tasks[o].op = "register"
                     /\ tasks[o].at # "get_db"
                     /\ ~(tasks[o].at = "insert" /\ tasks[o].pc = "ready")}

\* a request that reaches get_password_hash unless it raises before
MayHash(op, req) ==
    \/ op = "register"
    \/ op = "update_user" /\ "password" \in DOMAIN UserUpdate(req.user_in)

\* the requests in flight that may still draw a salt
Unsalted ==
    {o \in TaskIds : /\ MayHash(tasks[o].op, tasks[o].req)
                     /\ tasks[o].hashed = None
                     /\ tasks[o].at # "get_db"}

\* bcrypt has a salt left for one more request
SaltLeft == salts_drawn + Cardinality(Unsalted) < MaxSalts

\* the request arrives; UserService.create awaits get_by_email
register(t, email, password, full_name) ==
    /\ Arrives(t)
    /\ next_id + Cardinality(Unnumbered) <= MaxUserId
    /\ SaltLeft
    /\ Continue(t, Await(Start("register", [email |-> email, password |-> password,
                                            full_name |-> full_name]),
                         "get_by_email", [stmt |-> "get_by_email", email |-> email]))
    /\ UNCHANGED <<users, next_id, now, clock_steps, running, salts_drawn>>

\* create resumes with the result of get_by_email: it raises, or goes on
\* into get_password_hash
create_existing(t) ==
    /\ Resumes(t, "register", "get_by_email")
    /\ IF tasks[t].result # None
       THEN /\ Continue(t, Finish(tasks[t],
                                  Raise(ConflictError("User with this email already exists")),
                                  201))
            /\ running' = 0
       ELSE /\ Continue(t, Hashing(tasks[t]))
            /\ running' = IF hash_awaited THEN 0 ELSE t
    /\ UNCHANGED <<users, next_id, now, clock_steps, salts_drawn>>

\* get_password_hash returns, bcrypt having drawn a salt it has not drawn
\* before; create sends its INSERT and awaits the row
create_hashed(t) ==
    LET hashed == get_password_hash(tasks[t].req.password, salts_drawn + 1)
        params == [email |-> tasks[t].req.email, hashed_password |-> hashed,
                   full_name |-> tasks[t].req.full_name,
                   is_active |-> TRUE, is_superuser |-> FALSE]
    IN  /\ Hashed(t, "register")
        /\ Continue(t, Await([tasks[t] EXCEPT !.hashed = hashed], "insert",
                             [stmt |-> "insert", params |-> params]))
        /\ running' = 0
        /\ salts_drawn' = salts_drawn + 1
        /\ UNCHANGED <<users, next_id, now, clock_steps>>

\* create resumes with the inserted row, or with the driver's exception;
\* register returns the user
create_inserted(t) ==
    LET row == tasks[t].result
        task == tasks[t]
    IN  /\ Resumes(t, "register", "insert")
        /\ Continue(t, Finish(task, IF row.raised THEN row
                                     ELSE Ok(UserResponse(row.value)), 201))
        /\ UNCHANGED <<users, next_id, now, clock_steps, running, salts_drawn>>

\* ---------------------------------------------------- POST /auth/login

\* the request arrives; authenticate awaits get_by_email
login_endpoint(t, email, password) ==
    /\ Arrives(t)
    /\ Continue(t, Await(Start("login", [email |-> email, password |-> password]),
                         "get_by_email", [stmt |-> "get_by_email", email |-> email]))
    /\ UNCHANGED <<users, next_id, now, clock_steps, running, salts_drawn>>

\* authenticate resumes with the result of get_by_email: it raises, or goes
\* on into verify_password
authenticate_found(t) ==
    /\ Resumes(t, "login", "get_by_email")
    /\ IF tasks[t].result = None
       THEN /\ Continue(t, Finish(tasks[t],
                                  login(tasks[t].result, tasks[t].req.password, now, now),
                                  200))
            /\ running' = 0
       ELSE /\ Continue(t, Hashing(tasks[t]))
            /\ running' = IF hash_awaited THEN 0 ELSE t
    /\ UNCHANGED <<users, next_id, now, clock_steps, salts_drawn>>

\* authenticate switching the account off when the password check fails
authenticate_verified_locking(t) ==
    LET out == login(tasks[t].result, tasks[t].req.password, now, now)
        row == tasks[t].result
    IN  /\ Hashed(t, "login")
        /\ IF out.raised
           THEN /\ Continue(t, Finish(tasks[t], out, 200))
                /\ running' = 0
           ELSE /\ Continue(t, Minting(tasks[t], now))
                /\ running' = t
        /\ users' = IF out.raised /\ row \in users
                    THEN (users \ {row}) \cup {[row EXCEPT !.is_active = FALSE]}
                    ELSE users
        /\ UNCHANGED <<next_id, now, clock_steps, salts_drawn>>

\* verify_password returns; authenticate runs to its end on the row that was
\* fetched and raises, or login reads the clock for the access token
authenticate_verified(t) ==
    LET out == login(tasks[t].result, tasks[t].req.password, now, now)
    IN  /\ Hashed(t, "login")
        /\ IF out.raised
           THEN /\ Continue(t, Finish(tasks[t], out, 200))
                /\ running' = 0
           ELSE /\ Continue(t, Minting(tasks[t], now))
                /\ running' = t
        /\ UNCHANGED <<users, next_id, now, clock_steps, salts_drawn>>

\* login reads the clock again for the refresh token and returns the pair
login_minted(t) ==
    /\ Mints(t, "login")
    /\ Continue(t, Finish([tasks[t] EXCEPT !.t2 = now],
                          login(tasks[t].result, tasks[t].req.password,
                                tasks[t].t1, now), 200))
    /\ running' = 0
    /\ UNCHANGED <<users, next_id, now, clock_steps, salts_drawn>>

\* -------------------------------------------------- POST /auth/refresh

\* the request arrives with a token of the session h; refresh_token decodes
\* it and raises, or awaits get_by_id
refresh_endpoint(t, h, token) ==
    LET user_id == refresh_token_user_id(token, now)
        task == [Start("refresh", [token |-> token, root |-> h.root]) EXCEPT !.t0 = now]
    IN  /\ Arrives(t)
        /\ IF user_id.raised
           THEN Continue(t, Finish(task, user_id, 200))
           ELSE Continue(t, Await(task, "get_by_id",
                                  [stmt |-> "get_by_id", user_id |-> user_id.value]))
        /\ UNCHANGED <<users, next_id, now, clock_steps, running, salts_drawn>>

\* refresh_token resumes with what get_by_id returned or raised: it raises,
\* or reads the clock for the access token
refresh_token_found(t) ==
    LET out == refresh_token(tasks[t].req.token, tasks[t].result, now, now)
    IN  /\ Resumes(t, "refresh", "get_by_id")
        /\ IF out.raised
           THEN /\ Continue(t, Finish(tasks[t], out, 200))
                /\ running' = 0
           ELSE /\ Continue(t, Minting(tasks[t], now))
                /\ running' = t
        /\ UNCHANGED <<users, next_id, now, clock_steps, salts_drawn>>

\* refresh_token reads the clock again for the refresh token and returns the
\* pair
refresh_token_minted(t) ==
    /\ Mints(t, "refresh")
    /\ Continue(t, Finish([tasks[t] EXCEPT !.t2 = now],
                          refresh_token(tasks[t].req.token, tasks[t].result,
                                        tasks[t].t1, now), 200))
    /\ running' = 0
    /\ UNCHANGED <<users, next_id, now, clock_steps, salts_drawn>>
\* ------------------------------- the endpoints behind get_current_user

\* the endpoints whose dependency is CurrentSuperuser
SuperuserOps == {"list_users", "delete_user"}

\* the endpoints that ask for their connection before their user: get_db
\* is entered before oauth2_scheme runs.  GET /auth/me has no connection of
\* its own, get_current_user asks for its token first.
ConnectionFirstOps == {"list_users", "update_user", "delete_user"}

\* a request of an endpoint behind get_current_user arrives: the dependency
\* decodes the token and raises, or awaits get_by_id
Depends(t, op, req) ==
    LET user_id == get_current_user_id(req.token, now)
        task == [Start(op, req) EXCEPT !.t0 = now]
        failed == [task EXCEPT !.current_user = user_id]
    IN  /\ Arrives(t)
        /\ IF user_id.raised
           THEN IF oauth2_scheme(req.token).raised /\ op \notin ConnectionFirstOps
                THEN Answer(t, failed, user_id, 200)
                ELSE Continue(t, Finish(failed, user_id, 200))
           ELSE Continue(t, Await(task, "get_current_user",
                                  [stmt |-> "get_by_id", user_id |-> user_id.value]))
        /\ UNCHANGED <<users, next_id, now, clock_steps, running, salts_drawn>>

\* GET /auth/me arrives
get_current_user_info(t, token) == Depends(t, "me", [token |-> token])

\* GET /users/ (admin only) arrives
list_users(t, token, skip, limit) ==
    Depends(t, "list_users", [token |-> token, skip |-> skip, limit |-> limit])

\* PATCH /users/{user_id} arrives
update_user(t, token, user_id, user_in) ==
    /\ MayHash("update_user", [user_in |-> user_in]) => SaltLeft
    /\ Depends(t, "update_user",
               [token |-> token, user_id |-> user_id, user_in |-> user_in])

\* DELETE /users/{user_id} (admin only) arrives
delete_user(t, token, user_id) ==
    Depends(t, "delete_user", [token |-> token, user_id |-> user_id])

\* get_current_user resumes with what get_by_id returned or raised; then the
\* privilege gate of the admin-only endpoints; then the endpoint runs to its
\* first await, or to its end.  GET /users/ has one more dependency to solve
\* after the gate: PaginationParams, a plain callable, which the framework
\* runs in a worker thread and awaits.
get_current_user_found(t) ==
    LET resolved == get_current_user(tasks[t].result)
        current_user == IF tasks[t].op \in SuperuserOps
                        THEN get_current_active_superuser(resolved)
                        ELSE resolved
        task == [tasks[t] EXCEPT !.user = tasks[t].result, !.current_user = resolved]
        req == tasks[t].req
    IN  /\ resp = Idle
        /\ running = 0
        /\ tasks[t].pc = "ready"
        /\ tasks[t].at = "get_current_user"
        /\ IF current_user.raised THEN Continue(t, Finish(task, current_user, 200))
           ELSE IF task.op = "me"
           THEN Continue(t, Finish(task, Ok(UserResponse(current_user.value)), 200))
           ELSE IF task.op = "list_users"
           THEN Continue(t, Await(task, "pagination", [stmt |-> "run_in_threadpool"]))
           ELSE Continue(t, Await(task, "get_by_id",
                                  [stmt |-> "get_by_id", user_id |-> req.user_id]))
        /\ UNCHANGED <<users, next_id, now, clock_steps, running, salts_drawn>>

\* the worker thread has built PaginationParams(skip, limit)
run_in_threadpool(t) ==
    /\ resp = Idle
    /\ tasks[t].pc = "sent"
    /\ tasks[t].query.stmt = "run_in_threadpool"
    /\ tasks' = [tasks EXCEPT ![t].pc = "ready"]
    /\ UNCHANGED <<users, next_id, now, clock_steps, held, resp, running, salts_drawn>>

\* the dependencies of list_users are solved; the endpoint awaits get_list
list_users_paginated(t) ==
    /\ Resumes(t, "list_users", "pagination")
    /\ Continue(t, Await(tasks[t], "get_list",
                         [stmt |-> "get_list", skip |-> tasks[t].req.skip,
                          limit |-> tasks[t].req.limit]))
    /\ UNCHANGED <<users, next_id, now, clock_steps, running, salts_drawn>>

\* list_users resumes with the rows of get_list and awaits count
list_users_listed(t) ==
    /\ Resumes(t, "list_users", "get_list")
    /\ Continue(t, Await([tasks[t] EXCEPT !.items = tasks[t].result], "count",
                         [stmt |-> "count"]))
    /\ UNCHANGED <<users, next_id, now, clock_steps, running, salts_drawn>>

\* list_users resumes with the total of count and returns the page
list_users_counted(t) ==
    LET items == [i \in 1..Len(tasks[t].items) |-> UserResponse(tasks[t].items[i])]
    IN  /\ Resumes(t, "list_users", "count")
        /\ Continue(t, Finish(tasks[t],
                              Ok(PaginatedResponse(items, tasks[t].result,
                                                   tasks[t].req.skip,
                                                   tasks[t].req.limit)), 200))
        /\ UNCHANGED <<users, next_id, now, clock_steps, running, salts_drawn>>

\* the columns UPDATE sets: update_data, its password replaced by the hash
UpdateData(user_in, hashed) ==
    LET keys == (DOMAIN user_in \ {"password"})
                   \cup (IF "password" \in DOMAIN user_in
                         THEN {"hashed_password"} ELSE {})
    IN  [k \in keys |-> IF k = "hashed_password" THEN hashed ELSE user_in[k]]

\* the statement UserService.update awaits once update_data is complete:
\* its UPDATE, or get_by_id again when the body sets nothing
UpdateStatement(task, update_data) ==
    IF DOMAIN update_data = {}
    THEN Await(task, "get_by_id_again",
               [stmt |-> "get_by_id", user_id |-> task.req.user_id])
    ELSE Await(task, "update",
               [stmt |-> "update", user_id |-> task.req.user_id, data |-> update_data])

\* UserService.update resumes with what its get_by_id returned or raised
update_found(t) ==
    LET user_in == UserUpdate(tasks[t].req.user_in)
    IN  /\ Resumes(t, "update_user", "get_by_id")
        /\ IF tasks[t].result.raised
           THEN /\ Continue(t, Finish(tasks[t], tasks[t].result, 200))
                /\ running' = 0
           ELSE IF "password" \in DOMAIN user_in
           THEN /\ Continue(t, Hashing(tasks[t]))
                /\ running' = IF hash_awaited THEN 0 ELSE t
           ELSE /\ Continue(t, UpdateStatement(tasks[t], UpdateData(user_in, None)))
                /\ running' = 0
        /\ UNCHANGED <<users, next_id, now, clock_steps, salts_drawn>>

\* get_password_hash returns, bcrypt having drawn a salt it has not drawn
\* before; update sends its UPDATE
update_hashed(t) ==
    LET user_in == UserUpdate(tasks[t].req.user_in)
        hashed == get_password_hash(user_in.password, salts_drawn + 1)
    IN  /\ Hashed(t, "update_user")
        /\ Continue(t, UpdateStatement([tasks[t] EXCEPT !.hashed = hashed],
                                       UpdateData(user_in, hashed)))
        /\ running' = 0
        /\ salts_drawn' = salts_drawn + 1
        /\ UNCHANGED <<users, next_id, now, clock_steps>>

\* update resumes with the row its UPDATE returned: User.from_row of no row
\* is a TypeError; update_user returns the user
update_written(t) ==
    LET row == tasks[t].result
        task == tasks[t]
    IN  /\ Resumes(t, "update_user", "update")
        /\ Continue(t, Finish(task,
                              IF row = None THEN Raise(OtherException("TypeError"))
                              ELSE IF row.raised THEN row
                              ELSE Ok(UserResponse(row.value)), 200))
        /\ UNCHANGED <<users, next_id, now, clock_steps, running, salts_drawn>>

\* update resumes with what its second get_by_id returned or raised
update_unchanged(t) ==
    LET user == tasks[t].result
    IN  /\ Resumes(t, "update_user", "get_by_id_again")
        /\ Continue(t, Finish(tasks[t],
                              IF user.raised THEN user
                              ELSE Ok(UserResponse(user.value)), 200))
        /\ UNCHANGED <<users, next_id, now, clock_steps, running, salts_drawn>>

\* UserService.delete resumes with what its get_by_id returned or raised,
\* and sends its DELETE
delete_found(t) ==
    /\ Resumes(t, "delete_user", "get_by_id")
    /\ IF tasks[t].result.raised
       THEN Continue(t, Finish(tasks[t], tasks[t].result, 200))
       ELSE Continue(t, Await(tasks[t], "delete",
                              [stmt |-> "delete", user_id |-> tasks[t].req.user_id]))
    /\ UNCHANGED <<users, next_id, now, clock_steps, running, salts_drawn>>

\* delete resumes after its DELETE; delete_user returns its message
delete_written(t) ==
    /\ Resumes(t, "delete_user", "delete")
    /\ Continue(t, Finish(tasks[t], Ok([message |-> "User deleted successfully"]), 200))
    /\ UNCHANGED <<users, next_id, now, clock_steps, running, salts_drawn>>

\* the response reaches the client
Deliver ==
    /\ resp # Idle
    /\ resp' = Idle
    /\ UNCHANGED <<tasks, running, users, next_id, now, clock_steps, held, salts_drawn>>

\* the clock moves
Tick(d) ==
    /\ resp = Idle
    /\ clock_steps < MaxClockSteps
    /\ now' = now + d
    /\ clock_steps' = clock_steps + 1
    /\ UNCHANGED <<tasks, running, users, next_id, held, resp, salts_drawn>>

\* ------------------------------------------------------ the tokens
\*
\* Spec: the clients of the seeded administrator log in, refresh and ask who
\* they are, two requests at a time, while the clock moves.

Next ==
    \/ \E t \in TaskIds, e \in Emails, p \in Passwords : login_endpoint(t, e, p)
    \/ \E t \in TaskIds : authenticate_found(t)
    \/ \E t \in TaskIds : authenticate_verified(t)
    \/ \E t \in TaskIds : login_minted(t)
    \/ \E t \in TaskIds, h \in Sessions : \E k \in Presentable(h) : refresh_endpoint(t, h, k)
    \/ \E t \in TaskIds : refresh_token_found(t)
    \/ \E t \in TaskIds : refresh_token_minted(t)
    \/ \E t \in TaskIds, h \in Sessions : \E k \in Presentable(h) \cup {NoCredentials} :
          get_current_user_info(t, k)
    \/ \E t \in TaskIds : get_current_user_found(t)
    \/ \E t \in TaskIds : execute(t)
    \/ \E t \in TaskIds : get_db(t)
    \/ \E d \in Jumps : Tick(d)
    \/ Deliver

Spec == Init /\ [][Next]_vars

\* ------------------------------------------------------ the sessions
\*
\* SpecSessions: the clients of the seeded administrator log in, refresh, ask
\* who they are, switch the account off and on and delete it, two requests at
\* a time, while access tokens run out.

\* the PATCH bodies SpecSessions draws: the ones that switch an account off
\* and on
ActiveUpdates == {[is_active |-> a] : a \in BOOLEAN}

\* the ids of the stored users
StoredIds == {u.id : u \in users}

NextSessions ==
    \/ \E t \in TaskIds, e \in Emails, p \in Passwords : login_endpoint(t, e, p)
    \/ \E t \in TaskIds : authenticate_found(t)
    \/ \E t \in TaskIds : authenticate_verified(t)
    \/ \E t \in TaskIds : login_minted(t)
    \/ \E t \in TaskIds, h \in Sessions : \E k \in Presentable(h) : refresh_endpoint(t, h, k)
    \/ \E t \in TaskIds : refresh_token_found(t)
    \/ \E t \in TaskIds : refresh_token_minted(t)
    \/ \E t \in TaskIds, h \in Sessions : \E k \in Presentable(h) \cup {NoCredentials} :
          get_current_user_info(t, k)
    \/ \E t \in TaskIds, h \in held, i \in StoredIds, u \in ActiveUpdates :
          \E k \in TokensOf(h) : update_user(t, k, i, u)
    \/ \E t \in TaskIds, h \in held, i \in StoredIds :
          \E k \in TokensOf(h) : delete_user(t, k, i)
    \/ \E t \in TaskIds : get_current_user_found(t)
    \/ \E t \in TaskIds : update_found(t)
    \/ \E t \in TaskIds : update_written(t)
    \/ \E t \in TaskIds : delete_found(t)
    \/ \E t \in TaskIds : delete_written(t)
    \/ \E t \in TaskIds : execute(t)
    \/ \E t \in TaskIds : get_db(t)
    \/ Tick(Minutes(access_token_expire_minutes))
    \/ Deliver

SpecSessions == Init /\ [][NextSessions]_vars

\* ------------------------------------- the operations on inputs of any origin

\* two passwords of more than 72 bytes that differ after the 72nd
LongPasswords == {Password("a*72", "x"), Password("a*72", "y")}

\* stored hashes that no scheme of pwd_context identifies: a plaintext left by
\* an import, an empty string
MalformedHashes ==
    {[scheme |-> "plain", salt |-> 0, digest |-> <<0, "pw1">>],
     [scheme |-> "", salt |-> 0, digest |-> <<0, "">>]}

Hashes ==
    {get_password_hash(p, s) : p \in Passwords \cup LongPasswords, s \in {2}}
       \cup MalformedHashes

\* a second row of table "users" with the given hash and active flag
Row(hashed_password, is_active) ==
    [id |-> 2, email |-> "bob@x.io", hashed_password |-> hashed_password,
     full_name |-> "null", is_active |-> is_active, is_superuser |-> FALSE]

\* the expires_delta arguments of create_access_token: none, zero, a tick,
\* five minutes
Deltas == {None, timedelta(0), timedelta(1), timedelta(Minutes(5))}

\* the "sub" claims of tokens signed with the configured secret: ids as
\* create_access_token writes them, numerals as int() also reads them (signed,
\* spaced, underscored, in the digits of another script), and strings that
\* int() refuses
Subjects ==
    {str(1), str(2), <<" ", "1">>, <<"+", "1">>, <<"1", "\n">>, <<"0", "_", "1">>,
     <<"\f", "1">>, <<"1", "U+000B">>, <<"U+00A0", "1", "U+2003">>,
     <<"U+0661">>, <<"U+FF11">>, <<"0", "U+0662">>, <<"+", "U+0660", "_", "U+0661">>,
     <<"-", "1">>, <<"a">>, <<"1", "a">>, <<"1", ".", "0">>, <<"_", "1">>, <<" ">>, <<>>,
     <<"U+001C", "1">>, <<"1", "U+0085", "1">>, <<"U+00B2">>}

\* tokens signed with the configured secret, by this service or by another
\* holder of the secret: with any "sub", or with none
Minted ==
    {encode([exp |-> now + Minutes(access_token_expire_minutes),
             sub |-> s, type |-> k]) : s \in Subjects, k \in {"access", "refresh"}}
    \cup {encode([exp |-> now + Minutes(access_token_expire_minutes),
                  type |-> "access"])}

InitUnit ==
    /\ users \in {{Admin}} \cup {{Admin, Row(h, a)} : h \in Hashes, a \in BOOLEAN}
    /\ next_id = 3
    /\ now = 0
    /\ clock_steps = 0
    /\ held = {}
    /\ resp = Idle
    /\ tasks = [t \in TaskIds |-> NoTask]
    /\ running = 0
    /\ salts_drawn = 2

\* the call of a function outside of any request
Called(op, req, value) ==
    /\ resp = Idle
    /\ \A t \in TaskIds : tasks[t].pc = "idle"
    /\ resp' = [op |-> op, req |-> req, status |-> 0, body |-> value, task |-> NoTask]
    /\ UNCHANGED <<tasks, running, users, next_id, now, clock_steps, held, salts_drawn>>

\* decode(encode(claims)) of claims whose exp is ahead
RoundTrip(claims) ==
    /\ claims.exp > now
    /\ Called("round_trip", [claims |-> claims], decode(encode(claims), now))

\* create_access_token(subject, expires_delta)
IssueAccess(subject, expires_delta) ==
    Called("create_access_token", [subject |-> subject, expires_delta |-> expires_delta],
           create_access_token(subject, expires_delta, now))

\* verify_password(plain_password, hashed_password)
Verify(plain_password, hashed_password) ==
    Called("verify_password",
           [plain_password |-> plain_password, hashed_password |-> hashed_password],
           verify_password(plain_password, hashed_password))

\* int(s)
ParseInt(s) == Called("int", [s |-> s], int(s))

\* the pages GET /users/ is asked for: skip >= 0, 1 <= limit <= 100, 20 by default
Skips == {0, 1, 2}

Limits == {1, 20}

\* SpecUnit: the functions are called, and requests are sent one at a time,
\* on stored rows and with tokens of any content
NextUnit ==
    \/ \E s \in UserIds, d \in Deltas : RoundTrip(build_access_payload(s, d, now))
    \/ \E s \in UserIds : RoundTrip(build_refresh_payload(s, now))
    \/ \E s \in UserIds, d \in Deltas : IssueAccess(s, d)
    \/ \E p \in Passwords \cup LongPasswords, h \in Hashes : Verify(p, h)
    \/ \E s \in Subjects : ParseInt(s)
    \/ \E p \in Passwords \cup LongPasswords : login_endpoint(1, "bob@x.io", p)
    \/ \E t \in TaskIds : authenticate_found(t)
    \/ \E t \in TaskIds : authenticate_verified(t)
    \/ \E t \in TaskIds : login_minted(t)
    \/ \E k \in Minted : get_current_user_info(1, k)
    \/ \E s \in Skips, l \in Limits :
          list_users(1, create_access_token(1, None, now), s, l)
    \/ \E t \in TaskIds : get_current_user_found(t)
    \/ \E t \in TaskIds : run_in_threadpool(t)
    \/ \E t \in TaskIds : list_users_paginated(t)
    \/ \E t \in TaskIds : list_users_listed(t)
    \/ \E t \in TaskIds : list_users_counted(t)
    \/ \E t \in TaskIds : execute(t)
    \/ \E t \in TaskIds : get_db(t)
    \/ Deliver

SpecUnit == InitUnit /\ [][NextUnit]_vars

\* ------------------------------------------------ registrations and logins
\*
\* SpecAsync: visitors register and log in, and change their passwords, the
\* requests of one interleaving with those of another.

NextAsync ==
    \/ \E t \in TaskIds, e \in Emails : register(t, e, Password("pw1", ""), "null")
    \/ \E t \in TaskIds : create_existing(t)
    \/ \E t \in TaskIds : create_hashed(t)
    \/ \E t \in TaskIds : create_inserted(t)
    \/ \E t \in TaskIds, e \in Emails, p \in Passwords : login_endpoint(t, e, p)
    \/ \E t \in TaskIds : authenticate_found(t)
    \/ \E t \in TaskIds : authenticate_verified(t)
    \/ \E t \in TaskIds : login_minted(t)
    \/ \E t \in TaskIds, h \in held, p \in Passwords :
          update_user(t, h.pair.access_token, h.root, [password |-> p])
    \/ \E t \in TaskIds : get_current_user_found(t)
    \/ \E t \in TaskIds : update_found(t)
    \/ \E t \in TaskIds : update_hashed(t)
    \/ \E t \in TaskIds : update_written(t)
    \/ \E t \in TaskIds : execute(t)
    \/ \E t \in TaskIds : get_db(t)
    \/ Deliver

SpecAsync == Init /\ [][NextAsync]_vars

\* --------------------------------------------------- the accounts' lifecycle
\*
\* SpecUsers: visitors register, log in with the right and the wrong
\* password, refresh, and change and delete accounts, their own and other
\* ones, with the access token they were given, with the refresh token in
\* its place, or with something that is no token.  The clock stands still
\* here; tokens that run out are sent in Spec, SpecSessions and SpecGate.

\* the JSON bodies PATCH /users/{user_id} is sent: a field of the schema,
\* and a field the schema does not have, which leaves nothing to set
Bodies == {[is_active |-> FALSE], [is_superuser |-> TRUE]}

\* the ids a path can name: the stored ones, and one that is not stored
PathIds == StoredIds \cup {next_id}

NextUsers ==
    \/ \E t \in TaskIds : register(t, "bob@x.io", Password("pw1", ""), "Bob")
    \/ \E t \in TaskIds : create_existing(t)
    \/ \E t \in TaskIds : create_hashed(t)
    \/ \E t \in TaskIds : create_inserted(t)
    \/ \E t \in TaskIds, e \in Emails, p \in Passwords : login_endpoint(t, e, p)
    \/ \E t \in TaskIds : authenticate_found(t)
    \/ \E t \in TaskIds : authenticate_verified(t)
    \/ \E t \in TaskIds : login_minted(t)
    \/ \E t \in TaskIds, h \in held : refresh_endpoint(t, h, h.pair.refresh_token)
    \/ \E t \in TaskIds : refresh_token_found(t)
    \/ \E t \in TaskIds : refresh_token_minted(t)
    \/ \E t \in TaskIds, h \in held, i \in PathIds, b \in Bodies :
          \E k \in TokensOf(h) : update_user(t, k, i, b)
    \/ \E t \in TaskIds, h \in Sessions, i \in PathIds :
          delete_user(t, h.pair.access_token, i)
    \/ \E t \in TaskIds : get_current_user_found(t)
    \/ \E t \in TaskIds : update_found(t)
    \/ \E t \in TaskIds : update_written(t)
    \/ \E t \in TaskIds : update_unchanged(t)
    \/ \E t \in TaskIds : delete_found(t)
    \/ \E t \in TaskIds : delete_written(t)
    \/ \E t \in TaskIds : execute(t)
    \/ \E t \in TaskIds : get_db(t)
    \/ Deliver

SpecUsers == Init /\ [][NextUsers]_vars


\* ------------------------------------------------------ the privilege gate
\*
\* SpecGate: the administrator and a registered visitor log in and send the
\* admin-only requests, with the tokens they were given, as issued, tampered
\* with, of the wrong kind or run out, with something that is no token and
\* with nothing, while accounts are deleted and the clock moves past the
\* life of an access token.

NextGate ==
    \/ \E t \in TaskIds : register(t, "bob@x.io", Password("pw1", ""), "Bob")
    \/ \E t \in TaskIds : create_existing(t)
    \/ \E t \in TaskIds : create_hashed(t)
    \/ \E t \in TaskIds : create_inserted(t)
    \/ \E t \in TaskIds, e \in Emails : login_endpoint(t, e, Password("pw1", ""))
    \/ \E t \in TaskIds : authenticate_found(t)
    \/ \E t \in TaskIds : authenticate_verified(t)
    \/ \E t \in TaskIds : login_minted(t)
    \/ \E t \in TaskIds, h \in Sessions : \E k \in Presentable(h) \cup {NoCredentials} :
          list_users(t, k, 0, 20)
    \/ \E t \in TaskIds, h \in held, i \in StoredIds :
          \E k \in TokensOf(h) : delete_user(t, k, i)
    \/ \E t \in TaskIds : get_current_user_found(t)
    \/ \E t \in TaskIds : run_in_threadpool(t)
    \/ \E t \in TaskIds : list_users_paginated(t)
    \/ \E t \in TaskIds : list_users_listed(t)
    \/ \E t \in TaskIds : list_users_counted(t)
    \/ \E t \in TaskIds : delete_found(t)
    \/ \E t \in TaskIds : delete_written(t)
    \/ \E t \in TaskIds : execute(t)
    \/ \E t \in TaskIds : get_db(t)
    \/ clock_steps = 0 /\ Tick(Minutes(access_token_expire_minutes) + TicksPerSecond)
    \/ Deliver

SpecGate == Init /\ [][NextGate]_vars
\* ------------------------------------------------- vocabulary of the claims
\*
\* resp holds the request that has just been answered: its input, its
\* response, and the coroutine as it ended (resp.task): the clock at which
\* its token was decoded (t0), the clocks its tokens were made at (t1, t2) and
\* the rows its statements returned.

\* the token carries the signature the configured secret gives its claims
Signed(t) == t.fmt = "jws" /\ t.mac = Hmac(jwt_secret_key, t.payload)

\* the clock has reached the token's expiry second
ExpiryReached(t, clock) == clock >= t.payload.exp * TicksPerSecond

\* the stored users a token's subject names
Named(t) ==
    {u \in users : ~SubjectId(t.payload).raised /\ u.id = SubjectId(t.payload).value}

\* the requests that run get_current_user
ResolverOps == {"me", "list_users", "update_user", "delete_user"}

GenericLoginFailure ==
    [status |-> 401,
     body |-> [error |-> "Incorrect email or password", detail |-> "null"]]

\* the status and body of a response
Seen(r) == [status |-> r.status, body |-> r.body]

\* the coroutines the loop may resume
Ready(t) == tasks[t].pc = "ready"

\* the database ends the transaction of task t with this step
Ends(t, stmt) ==
    /\ tasks[t].pc = "sent"
    /\ tasks[t].query.stmt = stmt
    /\ tasks'[t].pc = "ready"

\* ------------------------------------------------------------------- claims

\* C1: a correctly signed token whose type is "refresh" never passes
\* get_current_user: whatever the user it names, the request ends in 401.
C1_RefreshTokenNeverAuthorizes ==
    (resp.op \in ResolverOps /\ Signed(resp.req.token)
        /\ resp.req.token.payload.type = "refresh")
    => resp.status = 401

\* an unexpired refresh token of an existing, active superuser was sent to
\* GET /auth/me
C1_Witness ==
    /\ resp.op = "me"
    /\ Signed(resp.req.token)
    /\ resp.req.token.payload.type = "refresh"
    /\ ~ExpiryReached(resp.req.token, resp.task.t0)
    /\ \E u \in Named(resp.req.token) : u.is_active /\ u.is_superuser
    /\ resp.status = 401

\* C2: refresh never issues a pair for a correctly signed token whose type is
\* not "refresh": it answers 401 and returns no tokens.
C2_RefreshRejectsAccessToken ==
    (resp.op = "refresh" /\ Signed(resp.req.token)
        /\ resp.req.token.payload.type # "refresh")
    => /\ resp.status = 401
       /\ "access_token" \notin DOMAIN resp.body
       /\ "refresh_token" \notin DOMAIN resp.body

\* an unexpired access token of an existing active user was sent to refresh
C2_Witness ==
    /\ resp.op = "refresh"
    /\ Signed(resp.req.token)
    /\ resp.req.token.payload.type = "access"
    /\ ~ExpiryReached(resp.req.token, resp.task.t0)
    /\ \E u \in Named(resp.req.token) : u.is_active
    /\ resp.status = 401

\* C3: a login whose lookup finds no user and a login whose lookup finds a
\* user the password does not match fail alike: each gets the one generic
\* 401, and so does, at the same clock, every other login of either kind.
C3_LoginFailureIndistinguishable ==
    LET user == resp.task.result
        unknown == user = None
        wrong == user # None
                 /\ ~verify_password(resp.req.password, user.hashed_password).value
    IN  (resp.op = "login" /\ (unknown \/ wrong))
        => /\ Seen(resp) = GenericLoginFailure
           /\ \A p \in Passwords :
                 /\ Seen(Respond(login(None, p, now, now), 200)) = Seen(resp)
                 /\ \A other \in users :
                       ~verify_password(p, other.hashed_password).value
                       => Seen(Respond(login(other, p, now, now), 200)) = Seen(resp)

\* a login with an unknown email was answered while a stored user would fail
\* the password check
C3_Witness ==
    /\ resp.op = "login"
    /\ resp.task.result = None
    /\ resp.status = 401
    /\ \E u \in users, p \in Passwords :
          ~verify_password(p, u.hashed_password).value

\* C4 (the claim as stated): when the clock has reached a token's expiry
\* second as the token is decoded, now >= exp, get_current_user rejects the
\* token with 401.
C4_ExpiredAtBoundary ==
    (resp.op \in ResolverOps /\ Signed(resp.req.token)
        /\ resp.req.token.payload.type = "access"
        /\ ExpiryReached(resp.req.token, resp.task.t0))
    => resp.status = 401

\* the row get_current_user's lookup of the request just answered returned
Looked(r) == r.task.user

\* C5: the active flag that counts is the stored one, read during the
\* request: the lookup of get_current_user returns the row as it is stored
\* when the statement is executed, and a request with a correctly signed,
\* unexpired access token is refused with 401 "Inactive user" exactly when
\* that row's is_active is false, however the flag stood when the token was
\* issued.
C5_ActiveFlagReadPerRequest ==
    [][/\ \A t \in TaskIds :
             (tasks[t].at = "get_current_user" /\ tasks[t].pc = "sent"
                 /\ tasks'[t].pc = "ready")
             => tasks'[t].result
                   = get_by_id(users, SubjectId(tasks[t].req.token.payload).value)
       /\ (resp.op = "none" /\ resp'.op \in ResolverOps
              /\ Looked(resp') # None /\ ~Looked(resp').raised)
          => /\ ~Looked(resp').value.is_active
                   => (resp'.status = 401 /\ resp'.body = [detail |-> "Inactive user"])
             /\ Looked(resp').value.is_active => resp'.status # 401]_vars

\* an unexpired access token, issued while its user was active, was sent
\* after the user had been deactivated
C5_Witness ==
    /\ resp.op = "me"
    /\ Signed(resp.req.token)
    /\ resp.req.token.payload.type = "access"
    /\ ~ExpiryReached(resp.req.token, resp.task.t0)
    /\ Looked(resp) # None
    /\ ~Looked(resp).raised
    /\ ~Looked(resp).value.is_active
    /\ resp.status = 401

C7_RefreshOfMissingUserUnauthorized ==
    (resp.op = "refresh" /\ Signed(resp.req.token)
        /\ resp.req.token.payload.type = "refresh"
        /\ ~ExpiryReached(resp.req.token, resp.task.t0)
        /\ resp.task.result # None
        /\ resp.task.result.raised)
    => (resp.status = 401 /\ "access_token" \notin DOMAIN resp.body)

\* C8: a request with a correctly signed, unexpired access token whose
\* subject names no stored user is answered 401, the status a token that
\* does not decode gets; never 200, 404 or anything else.
C8_MissingUserUnauthorized ==
    (resp.op \in ResolverOps /\ Signed(resp.req.token)
        /\ resp.req.token.payload.type = "access"
        /\ ~ExpiryReached(resp.req.token, resp.task.t0)
        /\ Looked(resp) # None
        /\ Looked(resp).raised)
    => /\ resp.status = 401
       /\ resp.status = Respond(get_current_user_id(Garbage, now), 200).status

\* the access token of a user deleted after it was issued was sent
C8_Witness ==
    /\ resp.op = "me"
    /\ Signed(resp.req.token)
    /\ resp.req.token.payload.type = "access"
    /\ ~ExpiryReached(resp.req.token, resp.task.t0)
    /\ Looked(resp) = Raise(NotFoundError("User"))
    /\ Named(resp.req.token) = {}
    /\ resp.body = [detail |-> "User not found"]

\* C9: a successful refresh returns an access and a refresh token whose
\* expiries are counted from the clock of the refresh call, each from the
\* reading taken when the token is made, after the presented token was
\* decoded and before the answer, and not copied from the presented token;
\* and nothing is revoked: every refresh token a client holds, used before
\* or not, is accepted by refresh while its expiry is ahead and its user is
\* stored and active.
C9_RefreshRotatesBothRevokesNone ==
    /\ (resp.op = "refresh" /\ resp.status = 200)
       => /\ resp.body.access_token.payload.type = "access"
          /\ resp.body.access_token.payload.exp
                = (resp.task.t1 + Minutes(access_token_expire_minutes))
                     \div TicksPerSecond
          /\ resp.body.refresh_token.payload.type = "refresh"
          /\ resp.body.refresh_token.payload.exp
                = (resp.task.t2 + Days(refresh_token_expire_days)) \div TicksPerSecond
          /\ resp.task.t0 <= resp.task.t1
          /\ resp.task.t1 <= resp.task.t2
          /\ resp.task.t2 <= now
    /\ (resp.op = "refresh" /\ Signed(resp.req.token)
           /\ resp.req.token.payload.type = "refresh"
           /\ ~ExpiryReached(resp.req.token, resp.task.t0)
           /\ resp.task.result # None /\ ~resp.task.result.raised
           /\ resp.task.result.value.is_active)
       => resp.status = 200
    /\ \A h \in held :
          (~ExpiryReached(h.pair.refresh_token, now)
              /\ \E u \in Named(h.pair.refresh_token) : u.is_active)
          => LET user_id == refresh_token_user_id(h.pair.refresh_token, now)
             IN  /\ ~user_id.raised
                 /\ ~refresh_token(h.pair.refresh_token,
                                   get_by_id(users, user_id.value), now, now).raised

\* a held refresh token issued at an earlier second has just been used, and
\* the clock moved between the two tokens of the answer: the pair returned
\* has a later refresh expiry, and the used token is still held
C9_Witness ==
    /\ resp.op = "refresh"
    /\ resp.status = 200
    /\ \E h \in held : h.pair.refresh_token = resp.req.token
    /\ resp.body.refresh_token.payload.exp > resp.req.token.payload.exp
    /\ resp.task.t1 < resp.task.t2
    /\ resp.body.access_token.payload.exp > now \div TicksPerSecond

\* C10: the tokens of a successful login are an "access" and a "refresh"
\* token for the id of the user the lookup by the given email returned,
\* active and with a hash the given password verifies against; the tokens of
\* a successful refresh are for the subject of the token presented; and
\* every pair kept or returned in a chain of login and refreshes is for the
\* user that passed the password check at the chain's login.
C10_TokensBoundToCheckedPrincipal ==
    /\ (resp.op = "login" /\ resp.status = 200)
       => LET user == resp.task.result
          IN  /\ user # None
              /\ user.email = resp.req.email
              /\ user.is_active
              /\ verify_password(resp.req.password, user.hashed_password).value
              /\ resp.body.access_token.payload.type = "access"
              /\ resp.body.access_token.payload.sub = str(user.id)
              /\ resp.body.refresh_token.payload.type = "refresh"
              /\ resp.body.refresh_token.payload.sub = str(user.id)
              /\ Signed(resp.body.access_token)
              /\ Signed(resp.body.refresh_token)
              /\ resp.body.token_type = "bearer"
    /\ (resp.op = "refresh" /\ resp.status = 200)
       => /\ resp.body.access_token.payload.type = "access"
          /\ resp.body.access_token.payload.sub = resp.req.token.payload.sub
          /\ resp.body.refresh_token.payload.type = "refresh"
          /\ resp.body.refresh_token.payload.sub = resp.req.token.payload.sub
          /\ resp.body.access_token.payload.sub = str(resp.req.root)
    /\ \A h \in held : \A t \in TokensOf(h) : t.payload.sub = str(h.root)

\* a non-administrator logged in with the stored password and was handed a
\* pair
C10_Witness ==
    /\ resp.op = "login"
    /\ resp.status = 200
    /\ resp.task.result.id = 2
    /\ ~resp.task.result.is_superuser
    /\ resp.body.access_token.payload.sub = <<"2">>

\* C12: a token whose signature is not the one the configured secret gives
\* its content (signed under another key, or content changed under the old
\* signature) fails decode, which returns None, and neither get_current_user
\* nor refresh accepts it: the answer is 401 and carries no tokens.
C12_TamperedSignatureFailsDecode ==
    (resp.op \in ResolverOps \cup {"refresh"} /\ resp.req.token.fmt = "jws"
        /\ ~Signed(resp.req.token))
    => /\ decode(resp.req.token, resp.task.t0) = None
       /\ resp.status = 401
       /\ "access_token" \notin DOMAIN resp.body
       /\ "email" \notin DOMAIN resp.body

\* the unexpired access token of an active user, signed under another key,
\* was sent to GET /auth/me
C12_Witness ==
    /\ resp.op = "me"
    /\ resp.req.token.fmt = "jws"
    /\ resp.req.token.mac = Hmac(OtherKey, resp.req.token.payload)
    /\ resp.req.token.payload.type = "access"
    /\ ~ExpiryReached(resp.req.token, resp.task.t0)
    /\ \E u \in Named(resp.req.token) : u.is_active
    /\ resp.status = 401

\* C13 (the claim as stated): every 401 of login, refresh and identity
\* resolution has the fields of the 401 a failed login gets.
C13_UniformFailureShape ==
    (resp.op \in ResolverOps \cup {"login", "refresh"} /\ resp.status = 401)
    => DOMAIN resp.body = DOMAIN GenericLoginFailure.body

\* C16: login checks lookup, then password, then the active flag: "User is
\* inactive" is answered only when the password verified against the hash of
\* the row the lookup returned and that row is inactive; an inactive user
\* with a wrong password gets the generic failure, the one an unknown email
\* gets; and no login of an inactive user returns tokens.
C16_LoginCheckOrder ==
    LET user == resp.task.result
        verified == verify_password(resp.req.password, user.hashed_password).value
    IN  resp.op = "login"
        => /\ (resp.status = 401 /\ resp.body.error = "User is inactive")
                 => (user # None /\ verified /\ ~user.is_active)
           /\ (user # None /\ ~user.is_active /\ verified)
                 => (resp.status = 401 /\ resp.body.error = "User is inactive")
           /\ (user # None /\ ~user.is_active /\ ~verified)
                 => /\ Seen(resp) = GenericLoginFailure
                    /\ Seen(Respond(login(None, resp.req.password, now, now), 200))
                          = Seen(resp)
           /\ (user # None /\ ~user.is_active)
                 => (resp.status # 200 /\ "access_token" \notin DOMAIN resp.body)

\* an inactive user logged in with a wrong password
C16_Witness ==
    /\ resp.op = "login"
    /\ resp.task.result # None
    /\ ~resp.task.result.is_active
    /\ ~verify_password(resp.req.password, resp.task.result.hashed_password).value
    /\ resp.status = 401

\* the requests that run only login, refresh or get_current_user
AuthOps == {"login", "refresh", "me"}

\* the dependencies have refused the request of this coroutine
Refused(task) ==
    /\ task.ret # None
    /\ task.ret.result.raised
    /\ task.ret.result.exc.base = "HTTPException"

\* the step moves the coroutine t inside login, refresh or the dependencies,
\* or on its way out after the dependencies refused it
AuthStep(t) ==
    /\ tasks'[t].pc # tasks[t].pc
    /\ \/ tasks[t].op \in AuthOps
       \/ tasks'[t].op \in AuthOps
       \/ tasks[t].at = "get_current_user"
       \/ tasks'[t].at = "get_current_user"
       \/ Refused(tasks[t])
       \/ Refused(tasks'[t])

\* what an auth request answers, from its input, what its lookup returned and
\* the clocks it read
Outcome(r) ==
    IF r.op = "login"
    THEN Respond(login(r.task.result, r.req.password, r.task.t1, r.task.t2), 200)
    ELSE IF r.op = "refresh"
    THEN IF refresh_token_user_id(r.req.token, r.task.t0).raised
         THEN Respond(refresh_token_user_id(r.req.token, r.task.t0), 200)
         ELSE Respond(refresh_token(r.req.token, r.task.result, r.task.t1, r.task.t2),
                      200)
    ELSE IF get_current_user_id(r.req.token, r.task.t0).raised
    THEN Respond(get_current_user_id(r.req.token, r.task.t0), 200)
    ELSE LET current_user == get_current_user(r.task.user)
         IN  Respond(IF current_user.raised THEN current_user
                     ELSE Ok(UserResponse(current_user.value)), 200)

\* C19: login, refresh, get_current_user and get_current_active_superuser
\* write nothing: over every step of a request inside them, failed or not,
\* and over every step of a request the dependencies refused, the stored
\* users and the id sequence stay as they were and the request's
\* transaction holds no change; and what the request answers is computed
\* from its input, the rows its lookup returned and the clocks it read
\* alone.
C19_AuthOperationsStateless ==
    [][/\ \A t \in TaskIds :
             AuthStep(t) => /\ users' = users
                            /\ next_id' = next_id
                            /\ now' = now
                            /\ tasks[t].write = None
                            /\ tasks'[t].write = None
       /\ (resp.op = "none" /\ resp'.op \in AuthOps)
          => /\ resp'.task.write = None
             /\ Seen(resp') = Seen(Outcome(resp'))]_vars

\* a login with a wrong password for a stored user was refused while a pair
\* issued earlier is held
C19_Witness ==
    /\ resp.op = "login"
    /\ resp.status = 401
    /\ resp.task.result # None
    /\ resp.task.result \in users
    /\ held # {}

\* C11 (the claim as stated): decode(encode(c)) of claims whose exp is ahead
\* gives c back: the same sub, the same type and the exp that was passed,
\* read as the instant it denotes.
C11_EncodeDecodeRoundTrip ==
    resp.op = "round_trip"
    => /\ resp.body # None
       /\ DOMAIN resp.body = DOMAIN resp.req.claims
       /\ resp.body.sub = resp.req.claims.sub
       /\ resp.body.type = resp.req.claims.type
       /\ resp.body.exp * TicksPerSecond = resp.req.claims.exp

\* C14 (the claim as stated): verify_password of a digest that is no
\* well-formed hash returns false and does not raise, and a login of a user
\* stored with such a hash gets the generic 401.
C14_MalformedDigestIsFailure ==
    /\ (resp.op = "verify_password" /\ resp.req.hashed_password \in MalformedHashes)
       => (~resp.body.raised /\ resp.body.value = FALSE)
    /\ (resp.op = "login" /\ resp.task.result # None
          /\ resp.task.result.hashed_password \in MalformedHashes)
       => Seen(resp) = GenericLoginFailure

\* C15 (the claim as stated): the token of create_access_token(subject, ttl)
\* expires at now + ttl for every ttl given, a zero one too, and at now + the
\* configured minutes when none is given; its sub is str(subject) and its
\* type "access".
C15_AccessTokenExpiry ==
    resp.op = "create_access_token"
    => LET ttl == IF resp.req.expires_delta = None
                  THEN Minutes(access_token_expire_minutes)
                  ELSE resp.req.expires_delta.ticks
       IN  /\ resp.body.payload.exp = (now + ttl) \div TicksPerSecond
           /\ resp.body.payload.sub = str(resp.req.subject)
           /\ resp.body.payload.type = "access"

\* C17 (the claim as stated): whatever token is presented, one signed with
\* the configured secret whose sub is absent or no decimal numeral too, a
\* request behind get_current_user and the privilege gate ends authorized
\* (200), unauthorized (401) or forbidden (403).
C17_ResolutionTotal ==
    resp.op \in {"me", "list_users"} => resp.status \in {200, 401, 403}

\* C18 (the claim as stated): while a login, a registration or a change of
\* password computes a hash, the event loop is free to run the next step of
\* any other request that is ready for one.
C18_HashingOffEventLoop ==
    \A t \in TaskIds, o \in TaskIds :
        (o # t /\ tasks[t].pc = "hashing" /\ Ready(o)) => running = 0

\* C20 (the claim as stated): a registration ends with the user created
\* (201), or, its email belonging to a stored user, in Conflict (409) with
\* no user created; of two registrations of one email that interleave at
\* most one creates a user and the other ends in Conflict; and no two stored
\* users ever share an email.
C20_RegisterDuplicateConflict ==
    /\ resp.op = "register"
       => /\ resp.status \in {201, 409}
          /\ resp.status = 201 => \E u \in users : UserResponse(u) = resp.body
          /\ resp.status = 409 => \E u \in users : u.email = resp.req.email
    /\ \A u \in users, v \in users : u.email = v.email => u = v

\* the ids of the stored superusers
Superusers(db) == {u.id : u \in {v \in db : v.is_superuser}}

\* C21: no call of the API makes a superuser: over every step of register,
\* update_user, delete_user, login and refresh the set of superusers gains no
\* member; the row a registration commits is the user it returns, active
\* and not superuser; and update_user leaves is_superuser of every user as
\* it was, whatever the body names.
C21_NoPrivilegeEscalation ==
    [][/\ Superusers(users') \subseteq Superusers(users)
       /\ \A t \in TaskIds :
             (tasks[t].op = "register" /\ Ends(t, "commit"))
             => \E u \in users' \ users :
                   /\ UserResponse(u) = tasks[t].ret.result.value
                   /\ u.is_active
                   /\ ~u.is_superuser
       /\ \A u \in users, v \in users' :
             u.id = v.id => v.is_superuser = u.is_superuser]_vars

\* a user who is no superuser sent a PATCH of the own record with
\* is_superuser true and was answered 200
C21_Witness ==
    /\ resp.op = "update_user"
    /\ resp.status = 200
    /\ "is_superuser" \in DOMAIN resp.req.user_in
    /\ resp.req.user_in.is_superuser
    /\ resp.task.current_user.value.id = resp.req.user_id
    /\ ~resp.task.current_user.value.is_superuser
    /\ ~resp.body.is_superuser

\* C22 (the claim as stated): a PATCH that ends in a commit, and is then
\* answered 200, changes the record of a user other than the caller only
\* when the caller is a superuser.
C22_UpdateOnlySelfOrSuperuser ==
    [][\A t \in TaskIds :
          (tasks[t].op = "update_user" /\ Ends(t, "commit"))
          => LET caller == tasks[t].current_user.value
             IN  \A u \in users :
                    u \notin users' => (u.id = caller.id \/ caller.is_superuser)]_vars
====
